---- MODULE Spec2Model ----
(***************************************************************************)
(* repo2llm: the file-selection engine of RepoProcessor (core.py) and the  *)
(* formatter lookup (formatters/__init__.py).                              *)
(*                                                                         *)
(* Strings are sequences of one-character strings, so that prefix tests,   *)
(* splitting on "/" and wildcard matching are computed character by        *)
(* character.  A relative path is the sequence of its segments             *)
(* (pathlib's `parts`).  Paths follow the POSIX flavour of pathlib.        *)
(***************************************************************************)
EXTENDS Integers, Sequences, FiniteSets, TLC

(* ---------------- file and directory names ---------------- *)
n_src == <<"s", "r", "c">>
n_main_py == <<"m", "a", "i", "n", ".", "p", "y">>
n_app_ts == <<"a", "p", "p", ".", "t", "s">>
n_utils_js == <<"u", "t", "i", "l", "s", ".", "j", "s">>
n_node_modules == <<"n", "o", "d", "e", "_", "m", "o", "d", "u", "l", "e", "s">>
n_package_json == <<"p", "a", "c", "k", "a", "g", "e", ".", "j", "s", "o", "n">>
n_build == <<"b", "u", "i", "l", "d">>
n_output_txt == <<"o", "u", "t", "p", "u", "t", ".", "t", "x", "t">>
n_output == <<"o", "u", "t", "p", "u", "t">>
n_Output == <<"O", "u", "t", "p", "u", "t">>
n_result_txt == <<"r", "e", "s", "u", "l", "t", ".", "t", "x", "t">>
n_nested == <<"n", "e", "s", "t", "e", "d">>
n_test_py == <<"t", "e", "s", "t", ".", "p", "y">>
n_deep == <<"d", "e", "e", "p">>
n_test1_py == <<"t", "e", "s", "t", "1", ".", "p", "y">>
n_test2_py == <<"t", "e", "s", "t", "2", ".", "p", "y">>
n_other_txt == <<"o", "t", "h", "e", "r", ".", "t", "x", "t">>
n_output_file_txt == <<"o", "u", "t", "p", "u", "t", "_", "f", "i", "l", "e", ".", "t", "x", "t">>
n_src_md == <<"s", "r", "c", ".", "m", "d">>

(* ---------------- pattern strings ---------------- *)
p_git == <<".", "g", "i", "t">>
p_pycache == <<"_", "_", "p", "y", "c", "a", "c", "h", "e", "_", "_">>
p_node_modules == <<"n", "o", "d", "e", "_", "m", "o", "d", "u", "l", "e", "s">>
p_build == <<"b", "u", "i", "l", "d">>
p_build_slash == <<"b", "u", "i", "l", "d", "/">>
p_output == <<"o", "u", "t", "p", "u", "t">>
p_src_main_py == <<"s", "r", "c", "/", "m", "a", "i", "n", ".", "p", "y">>
p_src_nested == <<"s", "r", "c", "/", "n", "e", "s", "t", "e", "d">>
p_nested_glob == <<"*", "*", "/", "n", "e", "s", "t", "e", "d", "/", "*", "*">>
p_src_t_py == <<"s", "r", "c", "/", "t", "*", ".", "p", "y">>
p_star_py == <<"*", ".", "p", "y">>
p_src_star_ts == <<"s", "r", "c", "/", "*", ".", "t", "s">>
p_q_glob == <<"*", "/", "t", "e", "s", "t", "?", ".", "p", "y">>

(* Code points of the characters that occur, for str.__lt__. *)
ord == ("*" :> 42) @@ ("." :> 46) @@ ("/" :> 47) @@ ("1" :> 49) @@ ("2" :> 50) @@ ("?" :> 63) @@ ("O" :> 79) @@ ("_" :> 95) @@ ("a" :> 97) @@ ("b" :> 98) @@ ("c" :> 99) @@ ("d" :> 100) @@ ("e" :> 101) @@ ("f" :> 102) @@ ("g" :> 103) @@ ("h" :> 104) @@ ("i" :> 105) @@ ("j" :> 106) @@ ("k" :> 107) @@ ("l" :> 108) @@ ("m" :> 109) @@ ("n" :> 110) @@ ("o" :> 111) @@ ("p" :> 112) @@ ("r" :> 114) @@ ("s" :> 115) @@ ("t" :> 116) @@ ("u" :> 117) @@ ("x" :> 120) @@ ("y" :> 121)

(* ---------------- string helpers ---------------- *)
Range(s) == {s[k] : k \in DOMAIN s}

(* str.startswith(c) for a one-character c *)
startswith(s, c) == Len(s) > 0 /\ s[1] = c

(* str.split("/") *)
RECURSIVE SplitFrom(_, _, _)
SplitFrom(s, k, cur) ==
  IF k > Len(s) THEN <<cur>>
  ELSE IF s[k] = "/" THEN <<cur>> \o SplitFrom(s, k + 1, <<>>)
  ELSE SplitFrom(s, k + 1, Append(cur, s[k]))

split(s) == SplitFrom(s, 1, <<>>)

(* pathlib's parse_parts for a relative pattern: the components between    *)
(* slashes, without the empty ones and without "."                         *)
parse_parts(pattern) ==
  SelectSeq(split(pattern), LAMBDA x : x # <<>> /\ x # <<".">>)

(* fnmatch.fnmatchcase(name, pat) for patterns over literals, "*" and "?"  *)
(* (no pattern of the model contains "[")                                  *)
RECURSIVE fnmatchcase(_, _)
fnmatchcase(name, pat) ==
  IF pat = <<>> THEN name = <<>>
  ELSE IF pat[1] = "*"
    THEN fnmatchcase(name, Tail(pat))
         \/ (name # <<>> /\ fnmatchcase(Tail(name), pat))
  ELSE IF pat[1] = "?"
    THEN name # <<>> /\ fnmatchcase(Tail(name), Tail(pat))
  ELSE name # <<>> /\ name[1] = pat[1] /\ fnmatchcase(Tail(name), Tail(pat))

(* PurePath.match(pattern) on a relative path: the pattern's components    *)
(* are matched one by one against the path's last components; a pattern    *)
(* that starts with "/" never matches a relative path; "**" is an          *)
(* ordinary component and so behaves like "*".                             *)
match(parts, pattern) ==
  LET pat_parts == parse_parts(pattern)
      n == Len(pat_parts)
      m == Len(parts)
  IN  /\ ~startswith(pattern, "/")
      /\ n <= m
      /\ \A k \in 1..n : fnmatchcase(parts[m - n + k], pat_parts[k])

(* str.__lt__ *)
RECURSIVE str_lt(_, _)
str_lt(a, b) ==
  IF b = <<>> THEN FALSE
  ELSE IF a = <<>> THEN TRUE
  ELSE IF a[1] = b[1] THEN str_lt(Tail(a), Tail(b))
  ELSE ord[a[1]] < ord[b[1]]

\* the comparison of the two paths as text, str(a) < str(b)
path_lt_text(a, b) ==
  LET RECURSIVE text(_)
      text(p) == IF p = <<>> THEN <<>>
                 ELSE IF Len(p) = 1 THEN p[1]
                 ELSE p[1] \o <<"/">> \o text(Tail(p))
  IN  str_lt(text(a), text(b))

(* PurePath.__lt__: the comparison of the two lists of parts *)
RECURSIVE path_lt(_, _)
path_lt(a, b) ==
  IF b = <<>> THEN FALSE
  ELSE IF a = <<>> THEN TRUE
  ELSE IF a[1] = b[1] THEN path_lt(Tail(a), Tail(b))
  ELSE str_lt(a[1], b[1])

(* PurePath.suffix: the last component from its last dot, "" when the dot  *)
(* is the first or the last character or there is none                     *)
suffix(parts) ==
  LET name == parts[Len(parts)]
      dots == {k \in DOMAIN name : name[k] = "."}
      i == IF dots = {} THEN 0 ELSE CHOOSE k \in dots : \A j \in dots : j <= k
  IN  IF 1 < i /\ i < Len(name) THEN SubSeq(name, i, Len(name)) ELSE <<>>

(* ---------------- bounds ---------------- *)
\* patterns added to the defaults by add_ignore_patterns, in total
MaxAdded == 2
\* calls of process_repository on one processor
MaxRuns == 2

(* ---------------- inputs ---------------- *)
\* constants.py: the built-in ignore patterns
DEFAULT_IGNORE_PATTERNS == {p_git, p_pycache, p_node_modules}

\* patterns a caller may add (cli.py --ignore, the tests of core.py)
IgnoreUniverse ==
  {p_build, p_build_slash, p_output, p_src_main_py, p_src_nested,
   p_nested_glob, p_src_t_py, p_star_py, p_q_glob}

\* the arguments of one add_ignore_patterns call
AddChoices ==
  {s \in SUBSET IgnoreUniverse : s # {} /\ Cardinality(s) <= MaxAdded}

\* values of config.include_patterns a caller may set (cli.py --include)
IncludeUniverse == {{}, {p_star_py}, {p_src_star_ts}, {p_star_py, p_src_star_ts}}

\* contents of the .repo2llm file of the directory main runs in
ConfigFiles == {{}, {p_output}}

\* a tree below root_dir: its directories, its regular files, the files
\* whose bytes are not valid UTF-8, the files whose formatter raises, the
\* directories whose listing is denied (PermissionError, which rglob
\* swallows) and the directories whose listing fails with another OSError
\* (which rglob raises)
TempRepo ==
  [dirs |-> {<<n_src>>, <<n_node_modules>>},
   files |-> {<<n_src, n_main_py>>, <<n_src, n_app_ts>>, <<n_src, n_utils_js>>,
              <<n_node_modules, n_package_json>>},
   undecodable |-> {}, unrenderable |-> {}, unlistable |-> {}, broken |-> {}]

WildcardRepo ==
  [dirs |-> {<<n_src>>},
   files |-> {<<n_src, n_test1_py>>, <<n_src, n_test2_py>>, <<n_src, n_other_txt>>},
   undecodable |-> {}, unrenderable |-> {}, unlistable |-> {}, broken |-> {}]

NestedRepo ==
  [dirs |-> {<<n_src>>, <<n_src, n_nested>>, <<n_src, n_nested, n_deep>>},
   files |-> {<<n_src, n_main_py>>, <<n_src, n_nested, n_test_py>>,
              <<n_src, n_nested, n_deep, n_test_py>>},
   undecodable |-> {}, unrenderable |-> {}, unlistable |-> {}, broken |-> {}]

DottedRepo ==
  [dirs |-> {<<n_src>>},
   files |-> {<<n_src, n_main_py>>, <<n_src_md>>, <<n_src, n_test1_py>>},
   undecodable |-> {<<n_src, n_test1_py>>},
   unrenderable |-> {<<n_src, n_main_py>>}, unlistable |-> {}, broken |-> {}]

LockedRepo ==
  [dirs |-> {<<n_src>>, <<n_build>>},
   files |-> {<<n_src, n_main_py>>, <<n_build, n_test_py>>},
   undecodable |-> {}, unrenderable |-> {},
   unlistable |-> {<<n_build>>}, broken |-> {}]

BrokenRepo ==
  [dirs |-> {<<n_src>>, <<n_build>>},
   files |-> {<<n_src, n_main_py>>, <<n_build, n_test_py>>},
   undecodable |-> {}, unrenderable |-> {},
   unlistable |-> {}, broken |-> {<<n_build>>}]

Trees == {TempRepo, WildcardRepo, NestedRepo, DottedRepo, LockedRepo, BrokenRepo}

\* arguments of a direct call of _should_ignore: root_dir itself, a path
\* outside root_dir, and paths below root_dir
RootPath == [inroot |-> TRUE, parts |-> <<>>]
OutsidePath == [inroot |-> FALSE, parts |-> <<n_build>>]
Below(parts) == [inroot |-> TRUE, parts |-> parts]

PathUniverse ==
  {RootPath, OutsidePath}
  \cup {Below(e) : e \in UNION {t.dirs \cup t.files : t \in Trees}}
  \cup {Below(<<n_build, n_output_txt>>),
        Below(<<n_src, n_build, n_output, n_result_txt>>),
        Below(<<n_output, n_result_txt>>),
        Below(<<n_Output, n_result_txt>>),
        Below(<<n_output_file_txt>>),
        Below(<<n_nested, n_test_py>>)}

(* ---------------- formatters/__init__.py ---------------- *)
FORMATTERS ==
  (<<".", "p", "y">> :> "PythonFormatter")
  @@ (<<".", "j", "s">> :> "JavaScriptFormatter")
  @@ (<<".", "j", "s", "x">> :> "JavaScriptFormatter")
  @@ (<<".", "t", "s">> :> "TypeScriptFormatter")
  @@ (<<".", "t", "s", "x">> :> "TypeScriptFormatter")
  @@ (<<".", "j", "s", "o", "n">> :> "JSONFormatter")
  @@ (<<".", "t", "o", "m", "l">> :> "TOMLFormatter")
  @@ (<<".", "y", "a", "m", "l">> :> "YAMLFormatter")
  @@ (<<".", "y", "m", "l">> :> "YAMLFormatter")
  @@ (<<".", "m", "d">> :> "MarkdownFormatter")

\* a lookup that falls back to a generic formatter
get_formatter_with_fallback(parts) ==
  IF suffix(parts) \in DOMAIN FORMATTERS
  THEN FORMATTERS[suffix(parts)] ELSE "GenericTextFormatter"

\* FORMATTERS.get(path.suffix): "None" when the suffix has no entry
get_formatter_for_file(parts) ==
  IF suffix(parts) \in DOMAIN FORMATTERS THEN FORMATTERS[suffix(parts)] ELSE "None"

\* formatter.format_content(path, content): the wrapper around the content,
\* named by the relative path
format_content(formatter, parts, content) ==
  [kind |-> "file", name |-> parts, content |-> content]

\* the diagnostic f'\n# Error reading {rel_path}: {e!s}\n'
error_reading(parts) ==
  [kind |-> "error", name |-> parts, content |-> "Exception"]

\* the diagnostic f'\n# Error processing repository: {e!s}\n'
error_processing ==
  [kind |-> "abort", name |-> <<>>, content |-> "Exception"]

(* ---------------- traversal helpers ---------------- *)
RECURSIVE Perms(_)
Perms(S) ==
  IF S = {} THEN {<<>>}
  ELSE UNION {{<<x>> \o p : p \in Perms(S \ {x})} : x \in S}

\* root_dir.rglob('*'): every entry below the root, directories included,
\* in an order the file system decides
\* the entries rglob reaches: those with no directory above them whose
\* listing fails
Visible(t) ==
  {e \in t.dirs \cup t.files :
     \A k \in 1..(Len(e) - 1) : SubSeq(e, 1, k) \notin t.unlistable \cup t.broken}

rglob(t) == Perms(Visible(t))

\* rglob raises while sorted() consumes it
rglob_raises(t) == \E d \in t.broken : d \in Visible(t)

RemoveAt(s, k) == SubSeq(s, 1, k - 1) \o SubSeq(s, k + 1, Len(s))

\* sorted(...) of a list of paths: ascending by PurePath.__lt__, stable
RECURSIVE sorted(_)
sorted(s) ==
  IF s = <<>> THEN <<>>
  ELSE LET m == CHOOSE k \in DOMAIN s :
                  /\ \A j \in DOMAIN s : ~path_lt(s[j], s[k])
                  /\ \A j \in 1..(k - 1) : path_lt(s[k], s[j])
       IN  <<s[m]>> \o sorted(RemoveAt(s, m))

\* the lists sorted(root_dir.rglob('*')) can evaluate to, per tree
SortedListings == [t \in Trees |-> {sorted(e) : e \in rglob(t)}]

(* ---------------- state ---------------- *)
VARIABLES
  ignore_patterns,   \* config.ignore_patterns
  include_patterns,  \* config.include_patterns: None, or a set of patterns
  tree,              \* the file system below config.root_dir
  pc,                \* "config": no processor yet; "ready"; "scanning"; "done"
  dir_ignores,       \* processor.dir_ignores
  file_patterns,     \* processor.file_patterns
  paths,             \* process_repository: the sorted list the loop walks
  idx,               \* process_repository: position of the loop in paths
  output,            \* process_repository: the local list `output`
  last,              \* the loop iteration just executed: the path, the tests
                     \* it evaluated in order, and whether it entered the try
  query,             \* the most recent direct call of _should_ignore: its
                     \* argument and its result
  returned,          \* the values returned by process_repository so far
  handles,           \* the files that are open
  opened,            \* the files the current run has opened, in order
  cli                \* cli.py main: its arguments, its position, what it
                     \* printed and copied so far, its exit code

vars == <<ignore_patterns, include_patterns, tree, pc, dir_ignores,
          file_patterns, paths, idx, output, last, query, returned,
          handles, opened, cli>>

NoInclude == [is_none |-> TRUE, patterns |-> {}]
SomeInclude(s) == [is_none |-> FALSE, patterns |-> s]

\* truth value of config.include_patterns: None and the empty set are false
truthy(inc) == ~inc.is_none /\ inc.patterns # {}

(* ---------------- core.py: RepoProcessor ---------------- *)
\* a segment that only begins with an ignored name
part_startswith_dir_ignore(part) ==
  \E d \in dir_ignores : Len(d) <= Len(part) /\ SubSeq(part, 1, Len(d)) = d

\* `part in self.dir_ignores`
part_in_dir_ignores(part) == part \in dir_ignores

\* "/".join(parts)
RECURSIVE join(_)
join(parts) ==
  IF parts = <<>> THEN <<>>
  ELSE IF Len(parts) = 1 THEN parts[1]
  ELSE parts[1] \o <<"/">> \o join(Tail(parts))

\* the file patterns applied with fnmatch to the whole path string, where
\* "*" runs across slashes
_should_ignore_fnmatch(path) ==
  IF path.inroot /\ path.parts = <<>> THEN TRUE
  ELSE IF ~path.inroot THEN TRUE
  ELSE \/ \E k \in DOMAIN path.parts : part_in_dir_ignores(path.parts[k])
       \/ \E pattern \in file_patterns : fnmatchcase(join(path.parts), pattern)

\* RepoProcessor._should_ignore(path)
_should_ignore(path) ==
  IF path.inroot /\ path.parts = <<>> THEN TRUE          \* path == root_dir
  ELSE IF ~path.inroot THEN TRUE                         \* ValueError
  ELSE \/ \E k \in DOMAIN path.parts : part_in_dir_ignores(path.parts[k])
       \/ \E pattern \in file_patterns : match(path.parts, pattern)

\* all(...) in the place of any(...)
all_include_match(parts) ==
  \A pattern \in include_patterns.patterns : match(parts, pattern)

\* any(rel_path.match(pattern) for pattern in self.config.include_patterns)
any_include_match(parts) ==
  \E pattern \in include_patterns.patterns : match(parts, pattern)

\* open(path, encoding='utf-8').read() raises UnicodeDecodeError
read_fails(parts) == parts \in tree.undecodable

\* formatter.format_content(...) raises
render_fails(parts) == parts \in tree.unrenderable

\* main has not been invoked: the library is driven directly
CliOff ==
  [pc |-> "off", ignore |-> {}, include |-> {}, preview |-> FALSE,
   config_file |-> {}, log |-> <<>>, copied |-> <<>>, exit_code |-> -1]

\* main is entered with its --ignore and --include options and the preview
\* flag, in a directory whose .repo2llm file lists config_file
CliStarts ==
  {[pc |-> "start", ignore |-> i, include |-> n, preview |-> p,
    config_file |-> c, log |-> <<>>, copied |-> <<>>, exit_code |-> -1] :
     i \in AddChoices \cup {{}}, n \in IncludeUniverse, p \in BOOLEAN,
     c \in ConfigFiles}

InitCore ==
  /\ ignore_patterns = DEFAULT_IGNORE_PATTERNS
  /\ include_patterns = NoInclude
  /\ tree \in Trees
  /\ pc = "config"
  /\ dir_ignores = {}
  /\ file_patterns = {}
  /\ paths = <<>>
  /\ idx = 0
  /\ output = <<>>
  /\ last = <<>>
  /\ query = <<>>
  /\ returned = <<>>
  /\ handles = {}
  /\ opened = <<>>

Init == InitCore /\ cli = CliOff

\* RepoConfig.add_ignore_patterns(patterns)
add_ignore_patterns ==
  /\ pc \in {"config", "ready", "done"}
  /\ cli.pc = "off"
  /\ \E patterns \in AddChoices :
       /\ Cardinality((ignore_patterns \cup patterns) \ DEFAULT_IGNORE_PATTERNS) <= MaxAdded
       /\ ignore_patterns' = ignore_patterns \cup patterns
  /\ UNCHANGED <<include_patterns, tree, pc, dir_ignores, file_patterns,
                 paths, idx, output, last, query, returned>>
  /\ UNCHANGED <<handles, opened, cli>>

\* cli.py: config.include_patterns = set(include)
set_include_patterns ==
  /\ pc = "config"
  /\ cli.pc = "off"
  /\ include_patterns.is_none
  /\ \E s \in IncludeUniverse : include_patterns' = SomeInclude(s)
  /\ UNCHANGED <<ignore_patterns, tree, pc, dir_ignores, file_patterns,
                 paths, idx, output, last, query, returned>>
  /\ UNCHANGED <<handles, opened, cli>>

\* RepoProcessor.__init__(config)
RepoProcessor_init ==
  /\ pc = "config"
  /\ cli.pc = "off"
  /\ dir_ignores' = {p \in ignore_patterns : ~startswith(p, "*")}
  /\ file_patterns' = {p \in ignore_patterns : startswith(p, "*")}
  /\ pc' = "ready"
  /\ UNCHANGED <<ignore_patterns, include_patterns, tree, paths, idx, output,
                 last, query, returned>>
  /\ UNCHANGED <<handles, opened, cli>>

\* a direct call processor._should_ignore(path)
call_should_ignore ==
  /\ pc = "ready"
  /\ cli.pc = "off"
  /\ \E path \in PathUniverse :
       query' = <<[path |-> path, result |-> _should_ignore(path)]>>
  /\ UNCHANGED <<ignore_patterns, include_patterns, tree, pc, dir_ignores,
                 file_patterns, paths, idx, output, last, returned>>
  /\ UNCHANGED <<handles, opened, cli>>

\* process_repository may be called: by the library's user up to MaxRuns
\* times on a processor, by main once
CanProcess ==
  /\ pc \in {"ready", "done"}
  /\ Len(returned) < MaxRuns
  /\ cli.pc \in {"off", "processing"}
  /\ cli.pc = "processing" => returned = <<>>

\* process_repository, lines 76-80: output = [] and the sorted listing
process_repository_start ==
  /\ CanProcess
  /\ ~rglob_raises(tree)
  /\ \E listing \in SortedListings[tree] : paths' = listing
  /\ idx' = 1
  /\ output' = <<>>
  /\ last' = <<>>
  /\ opened' = <<>>
  /\ pc' = "scanning"
  /\ UNCHANGED <<ignore_patterns, include_patterns, tree, dir_ignores,
                 file_patterns, query, returned, handles, cli>>

\* lines 80, 117-118: rglob raises inside sorted(), before the loop starts;
\* the outer except appends its diagnostic and line 120 is next
process_repository_abort ==
  /\ CanProcess
  /\ rglob_raises(tree)
  /\ paths' = <<>>
  /\ idx' = 1
  /\ output' = <<error_processing>>
  /\ last' = <<>>
  /\ opened' = <<>>
  /\ pc' = "scanning"
  /\ UNCHANGED <<ignore_patterns, include_patterns, tree, dir_ignores,
                 file_patterns, query, returned, handles, cli>>

InLoop == pc = "scanning" /\ idx <= Len(paths)
cur == paths[idx]

\* line 83, first disjunct: the entry is not a regular file
skip_not_file ==
  /\ InLoop
  /\ cur \notin tree.files
  /\ last' = <<[path |-> cur, tests |-> <<"is_file">>, tried |-> FALSE]>>
  /\ idx' = idx + 1
  /\ UNCHANGED <<ignore_patterns, include_patterns, tree, pc, dir_ignores,
                 file_patterns, paths, output, query, returned>>
  /\ UNCHANGED <<handles, opened, cli>>

\* line 83, second disjunct: the file is ignored
skip_ignored ==
  /\ InLoop
  /\ cur \in tree.files
  /\ _should_ignore(Below(cur))
  /\ last' = <<[path |-> cur, tests |-> <<"is_file", "should_ignore">>,
                tried |-> FALSE]>>
  /\ idx' = idx + 1
  /\ UNCHANGED <<ignore_patterns, include_patterns, tree, pc, dir_ignores,
                 file_patterns, paths, output, query, returned>>
  /\ UNCHANGED <<handles, opened, cli>>

\* lines 87-93: include patterns are set and none matches the file
skip_not_included ==
  /\ InLoop
  /\ cur \in tree.files
  /\ ~_should_ignore(Below(cur))
  /\ truthy(include_patterns)
  /\ ~any_include_match(cur)
  /\ last' = <<[path |-> cur,
                tests |-> <<"is_file", "should_ignore", "include">>,
                tried |-> FALSE]>>
  /\ idx' = idx + 1
  /\ UNCHANGED <<ignore_patterns, include_patterns, tree, pc, dir_ignores,
                 file_patterns, paths, output, query, returned>>
  /\ UNCHANGED <<handles, opened, cli>>

\* the file passes lines 83-93 and the try block of lines 95-115 is entered
Eligible ==
  /\ InLoop
  /\ cur \in tree.files
  /\ ~_should_ignore(Below(cur))
  /\ truthy(include_patterns) => any_include_match(cur)

TriedTests ==
  IF truthy(include_patterns)
  THEN <<"is_file", "should_ignore", "include">>
  ELSE <<"is_file", "should_ignore">>

\* lines 100-102: no formatter for the suffix, continue
skip_no_formatter ==
  /\ Eligible
  /\ get_formatter_for_file(cur) = "None"
  /\ last' = <<[path |-> cur, tests |-> TriedTests, tried |-> TRUE]>>
  /\ idx' = idx + 1
  /\ UNCHANGED <<ignore_patterns, include_patterns, tree, pc, dir_ignores,
                 file_patterns, paths, output, query, returned>>
  /\ UNCHANGED <<handles, opened, cli>>

\* line 105: open(path, encoding='utf-8') gives a handle
open_file ==
  /\ Eligible
  /\ get_formatter_for_file(cur) # "None"
  /\ cur \notin handles
  /\ handles' = handles \cup {cur}
  /\ opened' = Append(opened, cur)
  /\ UNCHANGED <<ignore_patterns, include_patterns, tree, pc, dir_ignores,
                 file_patterns, paths, idx, output, last, query, returned,
                 cli>>

\* the diagnostic appended while the file is left open
append_error_leak ==
  /\ Eligible
  /\ cur \in handles
  /\ read_fails(cur) \/ render_fails(cur)
  /\ output' = Append(output, error_reading(cur))
  /\ last' = <<[path |-> cur, tests |-> TriedTests, tried |-> TRUE]>>
  /\ idx' = idx + 1
  /\ UNCHANGED <<ignore_patterns, include_patterns, tree, pc, dir_ignores,
                 file_patterns, paths, query, returned, handles, opened, cli>>

\* the exception handled outside the loop: the diagnostic ends the scan
append_error_abort ==
  /\ Eligible
  /\ cur \in handles
  /\ read_fails(cur) \/ render_fails(cur)
  /\ handles' = handles \ {cur}
  /\ output' = Append(output, error_reading(cur))
  /\ last' = <<[path |-> cur, tests |-> TriedTests, tried |-> TRUE]>>
  /\ idx' = Len(paths) + 1
  /\ UNCHANGED <<ignore_patterns, include_patterns, tree, pc, dir_ignores,
                 file_patterns, paths, query, returned, opened, cli>>

\* line 106 raises, or line 108 does after the with block has closed the
\* file; the with block closes the file in both cases and lines 114-115
\* append the diagnostic
append_error ==
  /\ Eligible
  /\ cur \in handles
  /\ read_fails(cur) \/ render_fails(cur)
  /\ handles' = handles \ {cur}
  /\ output' = Append(output, error_reading(cur))
  /\ last' = <<[path |-> cur, tests |-> TriedTests, tried |-> TRUE]>>
  /\ idx' = idx + 1
  /\ UNCHANGED <<ignore_patterns, include_patterns, tree, pc, dir_ignores,
                 file_patterns, paths, query, returned, opened, cli>>

\* lines 106-112: read, close, format, append
append_formatted ==
  /\ Eligible
  /\ cur \in handles
  /\ ~read_fails(cur) /\ ~render_fails(cur)
  /\ handles' = handles \ {cur}
  /\ output' = Append(output,
                 format_content(get_formatter_for_file(cur), cur, "text"))
  /\ last' = <<[path |-> cur, tests |-> TriedTests, tried |-> TRUE]>>
  /\ idx' = idx + 1
  /\ UNCHANGED <<ignore_patterns, include_patterns, tree, pc, dir_ignores,
                 file_patterns, paths, query, returned, opened, cli>>

\* line 120: return '\n'.join(output), a single str
process_repository_return ==
  /\ pc = "scanning"
  /\ idx > Len(paths)
  /\ returned' = Append(returned, [type |-> "str", value |-> output])
  /\ pc' = "done"
  /\ UNCHANGED <<ignore_patterns, include_patterns, tree, dir_ignores,
                 file_patterns, paths, idx, output, last, query>>
  /\ UNCHANGED <<handles, opened, cli>>

(* ---------------- cli.py: main ---------------- *)
CoreUnchangedByCli ==
  UNCHANGED <<tree, paths, idx, output, last, query, returned, handles, opened>>

\* lines 38-46: the config from the defaults and --ignore, the include
\* patterns from --include, and the processor; .repo2llm is not read
cli_configure ==
  /\ cli.pc = "start"
  /\ pc = "config"
  /\ ignore_patterns' = ignore_patterns \cup cli.ignore
  /\ include_patterns' =
       IF cli.include # {} THEN SomeInclude(cli.include) ELSE include_patterns
  /\ dir_ignores' = {p \in ignore_patterns' : ~startswith(p, "*")}
  /\ file_patterns' = {p \in ignore_patterns' : startswith(p, "*")}
  /\ pc' = "ready"
  /\ cli' = [cli EXCEPT !.pc = "processing"]
  /\ CoreUnchangedByCli

\* line 50: pyperclip.copy(output)
cli_copy ==
  /\ cli.pc = "processing"
  /\ pc = "done"
  /\ cli' = [cli EXCEPT !.pc = "copied",
                         !.log = Append(@, "copy"),
                         !.copied = Append(@, returned[Len(returned)].value)]
  /\ UNCHANGED <<ignore_patterns, include_patterns, pc, dir_ignores,
                 file_patterns>>
  /\ CoreUnchangedByCli

\* lines 53-65: the success panel, then the preview when it is enabled and
\* the output is not empty; main returns and the exit code is 0
cli_success ==
  /\ cli.pc = "copied"
  /\ cli' = [cli EXCEPT !.pc = "exited",
                         !.log = IF cli.preview /\ cli.copied[1] # <<>>
                                 THEN @ \o <<"success", "preview">>
                                 ELSE Append(@, "success"),
                         !.exit_code = 0]
  /\ UNCHANGED <<ignore_patterns, include_patterns, pc, dir_ignores,
                 file_patterns>>
  /\ CoreUnchangedByCli

\* the error printed, and main returning normally
cli_except_no_abort ==
  /\ \/ cli.pc = "start"
     \/ cli.pc = "processing" /\ pc \in {"ready", "done"}
  /\ cli' = [cli EXCEPT !.pc = "exited",
                         !.log = Append(@, "error"),
                         !.exit_code = 0]
  /\ UNCHANGED <<ignore_patterns, include_patterns, pc, dir_ignores,
                 file_patterns>>
  /\ CoreUnchangedByCli

\* lines 67-69: an exception from lines 38-50 (building the config, the
\* call of process_repository, the copy to the clipboard) prints the error
\* and raises click.Abort, which exits with code 1
cli_except ==
  /\ \/ cli.pc = "start"
     \/ cli.pc = "processing" /\ pc \in {"ready", "done"}
  /\ cli' = [cli EXCEPT !.pc = "exited",
                         !.log = Append(@, "error"),
                         !.exit_code = 1]
  /\ UNCHANGED <<ignore_patterns, include_patterns, pc, dir_ignores,
                 file_patterns>>
  /\ CoreUnchangedByCli

Next ==
  \/ add_ignore_patterns
  \/ set_include_patterns
  \/ RepoProcessor_init
  \/ process_repository_start
  \/ process_repository_abort
  \/ skip_not_file
  \/ skip_ignored
  \/ skip_not_included
  \/ skip_no_formatter
  \/ open_file
  \/ append_error
  \/ append_formatted
  \/ process_repository_return

Spec == Init /\ [][Next]_vars

\* one invocation of the command line
InitCli == InitCore /\ cli \in CliStarts

NextCli ==
  \/ cli_configure
  \/ process_repository_start
  \/ process_repository_abort
  \/ skip_not_file
  \/ skip_ignored
  \/ skip_not_included
  \/ skip_no_formatter
  \/ open_file
  \/ append_error
  \/ append_formatted
  \/ process_repository_return
  \/ cli_copy
  \/ cli_success
  \/ cli_except

SpecCli == InitCli /\ [][NextCli]_vars

\* the matcher on its own: a configuration is built, a processor is made
\* from it and _should_ignore is called on paths
InitMatcher == Init /\ tree = TempRepo

NextMatcher ==
  \/ add_ignore_patterns
  \/ RepoProcessor_init
  \/ call_should_ignore

SpecMatcher == InitMatcher /\ [][NextMatcher]_vars

(* ---------------- vocabulary of the properties ---------------- *)
\* the patterns the processor was constructed from
ProcessorPatterns == dir_ignores \cup file_patterns

HasGlobChar(p) == \E k \in DOMAIN p : p[k] \in {"*", "?", "["}

\* the pattern without a trailing slash
StripSlash(p) ==
  IF Len(p) > 0 /\ p[Len(p)] = "/" THEN SubSeq(p, 1, Len(p) - 1) ELSE p

\* a directory name, written with or without a trailing slash
IsDirName(p) ==
  /\ ~HasGlobChar(p)
  /\ StripSlash(p) # <<>>
  /\ "/" \notin Range(StripSlash(p))

\* a wildcard-free relative path of several segments
IsRelPath(p) == ~HasGlobChar(p) /\ Len(parse_parts(p)) >= 2

IsPrefix(a, b) == Len(a) <= Len(b) /\ SubSeq(b, 1, Len(a)) = a
IsSuffix(a, b) == Len(a) <= Len(b) /\ SubSeq(b, Len(b) - Len(a) + 1, Len(b)) = a

\* the only capital letter of the names in use
CaseFoldChar(c) == IF c = "O" THEN "o" ELSE c
CaseFold(s) == [k \in DOMAIN s |-> CaseFoldChar(s[k])]

\* the text of a return value contains the path `parts` as the name (or the
\* end of the name) of a rendered file or of a diagnostic
Mentions(items, parts) == \E k \in DOMAIN items : IsSuffix(parts, items[k].name)

Names(items) == [k \in DOMAIN items |-> items[k].name]

\* the depth-first walk of a tree that visits the entries of each directory
\* in the order of their names
Children(t, d) ==
  {e \in t.dirs \cup t.files : Len(e) = Len(d) + 1 /\ IsPrefix(d, e)}

RECURSIVE ByName(_)
ByName(S) ==
  IF S = {} THEN <<>>
  ELSE LET m == CHOOSE e \in S :
                  \A f \in S \ {e} : str_lt(e[Len(e)], f[Len(f)])
       IN  <<m>> \o ByName(S \ {m})

RECURSIVE WalkList(_, _)
WalkList(t, todo) ==
  IF todo = <<>> THEN <<>>
  ELSE <<Head(todo)>>
       \o (IF Head(todo) \in t.dirs
           THEN WalkList(t, ByName(Children(t, Head(todo))))
           ELSE <<>>)
       \o WalkList(t, Tail(todo))

Walk(t) == WalkList(t, ByName(Children(t, <<>>)))

\* the rendered files and per-file diagnostics of an output
PerFile(items) == SelectSeq(items, LAMBDA it : it.kind # "abort")

InWalkOrder(t, items) ==
  Names(PerFile(items)) =
    SelectSeq(Walk(t), LAMBDA e : e \in Range(Names(PerFile(items))))

(* ---------------- properties ---------------- *)

\* C1: whenever a pattern the processor was built from is a directory name D,
\* with or without a trailing slash, and a path below the root has D's name
\* as one of its segments, _should_ignore returns true for that path.
C1_DirNameAtAnyDepth ==
  \A k \in DOMAIN query :
    LET q == query[k] IN
      (/\ q.path.inroot
       /\ \E D \in ProcessorPatterns :
            IsDirName(D) /\ StripSlash(D) \in Range(q.path.parts))
      => q.result = TRUE

C3_RelativePathPattern ==
  \A k \in DOMAIN returned :
    LET out == returned[k].value IN
      /\ \A R \in ProcessorPatterns : \A j \in DOMAIN out :
           IsRelPath(R) => ~IsPrefix(parse_parts(R), out[j].name)
      /\ (/\ tree = TempRepo
          /\ ProcessorPatterns = DEFAULT_IGNORE_PATTERNS \cup {p_src_main_py}
          /\ ~truthy(include_patterns))
         => /\ Mentions(out, <<n_src, n_app_ts>>)
            /\ Mentions(out, <<n_src, n_utils_js>>)
      /\ (/\ tree = NestedRepo
          /\ ProcessorPatterns = DEFAULT_IGNORE_PATTERNS \cup {p_src_nested}
          /\ ~truthy(include_patterns))
         => Mentions(out, <<n_src, n_main_py>>)

\* C4: with **/nested/** among the processor's patterns, a path that has a
\* segment `nested` before its last segment is ignored, and the pattern
\* matches no path without a segment `nested`.
C4_NestedGlob ==
  \A k \in DOMAIN query :
    LET q == query[k]
        parts == q.path.parts
    IN  (q.path.inroot /\ p_nested_glob \in file_patterns)
        => /\ (\E j \in 1..(Len(parts) - 1) : parts[j] = n_nested)
                => q.result = TRUE
           /\ n_nested \notin Range(parts) => ~match(parts, p_nested_glob)

\* C5: a pattern with a wildcard anywhere in it is matched as a glob against
\* the relative path: a path it matches is ignored.
C5_GlobAnywhere ==
  \A k \in DOMAIN query :
    LET q == query[k] IN
      (/\ q.path.inroot
       /\ q.path.parts # <<>>
       /\ \E p \in ProcessorPatterns :
            HasGlobChar(p) /\ match(q.path.parts, p))
      => q.result = TRUE

\* C6: with *.py added to the defaults, a run over src/test1.py,
\* src/test2.py, src/other.txt returns output that names other.txt and
\* neither .py file.
C6_WildcardScenario ==
  \A k \in DOMAIN returned :
    (/\ tree = WildcardRepo
     /\ ProcessorPatterns = DEFAULT_IGNORE_PATTERNS \cup {p_star_py}
     /\ ~truthy(include_patterns))
    => /\ Mentions(returned[k].value, <<n_other_txt>>)
       /\ ~Mentions(returned[k].value, <<n_test1_py>>)
       /\ ~Mentions(returned[k].value, <<n_test2_py>>)

\* C7: a segment that differs from a directory token only in letter case, or
\* that only begins with the token, does not make _should_ignore true: when
\* no segment is identical to a token and no file pattern matches, the
\* result is false.
C7_ExactSegmentOnly ==
  \A k \in DOMAIN query :
    LET q == query[k]
        parts == q.path.parts
    IN  (/\ q.path.inroot
         /\ \E j \in DOMAIN parts : \E d \in dir_ignores :
              /\ parts[j] # d
              /\ CaseFold(parts[j]) = CaseFold(d) \/ IsPrefix(d, parts[j])
         /\ \A j \in DOMAIN parts : parts[j] \notin dir_ignores
         /\ \A p \in file_patterns : ~match(parts, p))
        => q.result = FALSE

C7_Witness ==
  /\ p_output \in dir_ignores
  /\ \E k \in DOMAIN query :
       /\ query[k].path \in {Below(<<n_output_file_txt>>),
                             Below(<<n_Output, n_result_txt>>)}
       /\ query[k].result = FALSE

\* C8: a loop iteration enters the try block iff the entry is a regular
\* file, is not ignored and, when include patterns are set and non-empty,
\* matches one of them; the include test is evaluated only after the ignore
\* test, and only for a file that is not ignored.
C8_IncludeAfterIgnore ==
  \A k \in DOMAIN last :
    LET l == last[k]
        ignored == _should_ignore(Below(l.path))
        included == \E p \in include_patterns.patterns : match(l.path, p)
    IN  /\ l.tried <=> (/\ l.path \in tree.files
                        /\ ~ignored
                        /\ truthy(include_patterns) => included)
        /\ "include" \in Range(l.tests)
             => /\ l.tests = <<"is_file", "should_ignore", "include">>
                /\ ~ignored
                /\ truthy(include_patterns)

C8_Witness ==
  \E k \in DOMAIN last :
    /\ last[k].tried
    /\ include_patterns = SomeInclude({p_star_py, p_src_star_ts})
    /\ last[k].path = <<n_src, n_main_py>>
    /\ p_build \in dir_ignores

\* C9: the rendered files and diagnostics appear in the order of the
\* depth-first walk that sorts each directory's entries by name, whatever
\* order the file system lists them in, and every run of one processor over
\* the tree returns the same value.
C9_DeterministicOrder ==
  /\ InWalkOrder(tree, output)
  /\ \A k \in DOMAIN returned : InWalkOrder(tree, returned[k].value)
  /\ \A j, k \in DOMAIN returned : returned[j] = returned[k]

C9_Witness ==
  /\ Len(returned) = 2
  /\ tree = DottedRepo
  /\ Len(returned[2].value) = 3

\* C10: process_repository returns the output together with a count, and the
\* count is the number of rendered files in the output.
C10_ReturnsCount ==
  \A k \in DOMAIN returned :
    /\ "count" \in DOMAIN returned[k]
    /\ returned[k].count =
         Cardinality({j \in DOMAIN returned[k].value :
                        returned[k].value[j].kind = "file"})

\* a regular file that passes the ignore and include tests and whose suffix
\* has a formatter
Renderable(f) ==
  /\ f \in tree.files
  /\ ~_should_ignore(Below(f))
  /\ truthy(include_patterns)
       => \E p \in include_patterns.patterns : match(f, p)
  /\ suffix(f) \in DOMAIN FORMATTERS

ItemsNamed(items, f, kind) ==
  {j \in DOMAIN items : items[j].name = f /\ items[j].kind = kind}

\* C11: a run over a tree with a file that is not valid UTF-8 returns, its
\* output has no occurrence of that file's name, and it has the rendered
\* content of the other eligible files.
C11_UndecodableNotNamed ==
  \A k \in DOMAIN returned :
    LET out == returned[k].value IN
      \A f \in tree.undecodable :
        /\ ~Mentions(out, <<f[Len(f)]>>)
        /\ \A g \in tree.files :
             (Renderable(g) /\ ~read_fails(g) /\ ~render_fails(g))
             => ItemsNamed(out, g, "file") # {}

\* C12: when main has exited, either an exception was caught, the error was
\* printed, the exit code is not 0 and the success message was not printed;
\* or nothing was raised, the exit code is 0 and the returned output was
\* copied exactly once, before the success message.
C12_CliOutcome ==
  cli.pc = "exited" =>
    IF "error" \in Range(cli.log)
    THEN /\ cli.exit_code # 0
         /\ "success" \notin Range(cli.log)
    ELSE /\ cli.exit_code = 0
         /\ Len(cli.copied) = 1
         /\ cli.copied[1] = returned[1].value
         /\ Cardinality({j \in DOMAIN cli.log : cli.log[j] = "copy"}) = 1
         /\ \E i, j \in DOMAIN cli.log :
              i < j /\ cli.log[i] = "copy" /\ cli.log[j] = "success"

C12_Witness ==
  /\ cli.pc = "exited"
  /\ cli.exit_code = 1
  /\ pc = "done"
  /\ cli.log = <<"error">>

\* C13: the patterns a command-line run works with are the defaults, the
\* patterns of the .repo2llm file and the --ignore patterns, and the
\* defaults are never removed.
C13_PatternUnion ==
  /\ DEFAULT_IGNORE_PATTERNS \subseteq ignore_patterns
  /\ pc # "config"
       => /\ ignore_patterns =
               DEFAULT_IGNORE_PATTERNS \cup cli.config_file \cup cli.ignore
          /\ ProcessorPatterns = ignore_patterns

\* C14: a run applies the patterns the config holds when the run starts,
\* also those added after the processor was constructed: nothing in the
\* output has a segment that is a configured pattern or matches a
\* configured file pattern.
C14_LateAddsApplied ==
  pc = "scanning" =>
    \A j \in DOMAIN output :
      output[j].kind # "abort" =>
        /\ \A k \in DOMAIN output[j].name :
             output[j].name[k] \notin ignore_patterns
        /\ \A p \in ignore_patterns :
             startswith(p, "*") => ~match(output[j].name, p)

C16_NoDescentIntoIgnored ==
  /\ \A k \in DOMAIN paths : \A j \in 1..(Len(paths[k]) - 1) :
       ~_should_ignore(Below(SubSeq(paths[k], 1, j)))
  /\ \A k \in DOMAIN last : \A j \in 1..(Len(last[k].path) - 1) :
       ~_should_ignore(Below(SubSeq(last[k].path, 1, j)))

\* C17: when a directory cannot be listed, the output has a diagnostic for
\* it and still has the rendering of every renderable file outside it.
C17_UnlistableDirectory ==
  \A k \in DOMAIN returned :
    LET out == returned[k].value IN
      \A d \in tree.unlistable \cup tree.broken :
        /\ \E j \in DOMAIN out : out[j].kind \in {"error", "abort"}
        /\ \A g \in tree.files :
             (/\ Renderable(g)
              /\ ~read_fails(g) /\ ~render_fails(g)
              /\ ~IsPrefix(d, g))
             => ItemsNamed(out, g, "file") # {}

\* C18: at most one file is open at any time, and an open file is the one
\* the loop is at: it is closed before the loop moves on, also after a read
\* that raised.
C18_OneHandle ==
  /\ Cardinality(handles) <= 1
  /\ handles # {} => InLoop /\ handles = {cur}

C18_Witness ==
  /\ handles = {<<n_src_md>>}
  /\ \E j \in DOMAIN output :
       output[j].kind = "error" /\ read_fails(output[j].name)

====
